---- MODULE Spec2Model ----
(***************************************************************************)
(* my-player: the download manager (services/download.py), the prefetch    *)
(* scheduler and next/previous sequencing (ui/mixins/player_queue_mixin.py)*)
(* and the result router (ui/mixins/download_fileops_mixin.py).            *)
(*                                                                         *)
(* Threads: 2 interactive workers and NumBg background workers run         *)
(* DownloadManager._worker_loop; the Qt thread runs every UI handler to    *)
(* completion.  The file_ready signal crosses threads as a queued Qt       *)
(* signal: it is modelled as the FIFO file_ready of emitted, not yet       *)
(* delivered events.                                                       *)
(***************************************************************************)
EXTENDS Integers, Sequences, FiniteSets, TLC

\* ------------------------------------------------------------------ bounds

\* Background workers modelled (bg_concurrency).
NumBg == 1
\* Jobs (queued or held by a worker) and undelivered completion events there may
\* be once a handler or a client call has submitted its jobs.
MaxJobs == 2
\* Entries of the deferred high-priority buffer.
MaxDeferred == 2
\* Jobs, undelivered completion events and deferred requests together.
MaxWork == 3
\* Readings of time.time() (epoch seconds, scaled; the clock is positive).
MaxNow == 2
\* The "N" of "N consecutive rate-limit-class failures" (the code names none).
ThrottleN == 2

\* ------------------------------------------------------- program constants

\* _spawn_workers(hi=2, ...)
NumHi == 2
\* PREFETCH_MS
PREFETCH_MS == 60000
\* Duration the player reports for a loaded file (ms).
SongDur == 200000

\* Python's None, where the other values are strings
None == "None"

\* Python's None, where the other values are tuples or integers
NoContext == << >>

NoIndex == -1

\* --------------------------------------------------------------- the library

\* A Song is identified by its key(): the tuple of all its fields.  The model
\* writes a Song as its title; its category is given by category_of.
Songs == {"a1", "a2", "b1"}

category_of(s) == IF s = "b1" THEN "B" ELSE "A"

\* Song.key(): (category, title, album, artists); the title names it here
key(s) == s

\* expected_path(song): SONGS_DIR / category dir / "<title> - <artists>.mp3"
expected_path(s) == <<category_of(s), s>>

\* resolve_existing_file(song, migrate): a thin wrapper over expected_path
resolve_existing_file(s) == expected_path(s)

\* self.library: Dict[str, List[Song]], in load order
library == [A |-> <<"a1", "a2">>, B |-> <<"b1">>]

Categories == DOMAIN library

\* self.playlists: one playlist, "P"
playlists == [P |-> <<"b1", "a1">>]

SPECIAL_PL_CATEGORY_PREFIX == "[Playlist]"

PlaylistView == "[Playlist]P"

Views == Categories \cup {PlaylistView}

VARIABLES
    \* ---- DownloadManager
    _high_q,          \* queue.Queue[DownloadJob]: FIFO of jobs
    _bg_q,
    _bg_enabled,
    _recent_403,
    _last_403_ts,
    _pause_until,
    wpc,              \* each worker's place in _worker_loop: "get", "gate", "fetch"
    wjob,             \* the job a worker holds (NoJob at "get")
    file_ready,       \* emitted file_ready(song, ok, path_or_err), not yet delivered
    queue_paused,     \* emitted queue_paused(reason), not yet delivered
    \* ---- environment
    files,            \* the paths that exist on disk
    \* ---- history (not program state)
    seen_403,         \* consecutive rate-limit-class failures the adapter returned
    \* ---- MyPlayerMain
    current_category,
    current_list,
    play_queue,
    play_index,       \* 0-based as in the source; -1 before playback
    play_context,
    current_song_key,
    player_source,    \* the path given to player.setSource (None before playback)
    _duration_ms,
    _prefetch_triggered,
    _prefetch_in_progress,
    _prefetch_next_key,
    _pending_autoplay_key,
    _deferred_hi,
    \* ---- history (not program state)
    pf_submits        \* prefetch jobs submitted since the last _play_file

dlm_vars == <<_high_q, _bg_q, _bg_enabled, _recent_403, _last_403_ts, _pause_until,
              wpc, wjob, file_ready, queue_paused>>

env_vars == <<files, seen_403>>

seq_vars == <<current_category, current_list, play_queue, play_index, play_context>>

pf_vars == <<_prefetch_triggered, _prefetch_in_progress, _prefetch_next_key, pf_submits>>

ui_vars == <<seq_vars, current_song_key, player_source, _duration_ms, pf_vars,
             _pending_autoplay_key, _deferred_hi>>

vars == <<dlm_vars, env_vars, ui_vars>>

\* ------------------------------------------------------------- DownloadManager

HiWorkers == 1 .. NumHi

BgWorkers == (NumHi + 1) .. (NumHi + NumBg)

Workers == HiWorkers \cup BgWorkers

\* Every worker thread started as an interactive one.
is_high_All(w) == TRUE


\* _spawn_workers: args=(self._high_q, True) for the first hi threads
is_high(w) == w \in HiWorkers

\* DownloadJob(song, refresh, high)
DownloadJob(s, r, h) == [song |-> s, refresh |-> r, high |-> h]

\* What wjob holds for a worker that waits at q.get: no job.
NoJob == [song |-> None, refresh |-> FALSE, high |-> FALSE]

\* __init__
DlmInit ==
    /\ _high_q = <<>>
    /\ _bg_q = <<>>
    /\ _bg_enabled = FALSE
    /\ _recent_403 = 0
    /\ _last_403_ts = 0
    /\ _pause_until = 0
    /\ wpc = [w \in Workers |-> "get"]
    /\ wjob = [w \in Workers |-> NoJob]
    /\ file_ready = <<>>
    /\ queue_paused = <<>>

\* enqueue_high(song, refresh): the queue after the put
enqueue_high(q, s, r) == Append(q, DownloadJob(s, r, TRUE))

\* enqueue_background_many(songs): the queue after the puts, in list order
enqueue_background_many(q, songs) ==
    q \o [i \in 1 .. Len(songs) |-> DownloadJob(songs[i], FALSE, FALSE)]

\* has_high_running()
has_high_running == _high_q # <<>>

\* The queue a worker thread was started on.
QueueOf(w) == IF is_high(w) THEN _high_q ELSE _bg_q

\* What time.time() may return.
Clock == 1 .. MaxNow

\* line 84: time.time() < self._pause_until
ThrottleGate(t) == t < _pause_until

\* The background gate without its "not is_high": every worker consults the flag.
BackgroundGate_AllWorkers(w) == ~_bg_enabled

\* line 89: (not is_high) and (not self._bg_enabled)
BackgroundGate(w) == (~is_high(w)) /\ (~_bg_enabled)

\* The skip test without its "and not job.refresh".
SkipFetch_AnyExisting(job) == expected_path(job.song) \in files

\* line 99: outp.exists() and not job.refresh
SkipFetch(job) == expected_path(job.song) \in files /\ ~job.refresh

\* file_ready.emit(song, ok, path_or_err)
Event(s, ok) ==
    [song |-> s, ok |-> ok,
     msg |-> IF ok THEN expected_path(s) ELSE <<"error">>]

\* The emit left out.
Emit_Nothing(evs, s, ok) == evs

\* self.file_ready.emit(s, ok, ...): the events not yet delivered, after the emit
Emit(evs, s, ok) == Append(evs, Event(s, ok))

\* q.put(job) on the worker's own queue
PutBack(w, job) ==
    IF is_high(w)
    THEN /\ _high_q' = Append(_high_q, job)
         /\ UNCHANGED _bg_q
    ELSE /\ _bg_q' = Append(_bg_q, job)
         /\ UNCHANGED _high_q

\* line 79: job = q.get(timeout=0.25)
WorkerGet(w) ==
    /\ wpc[w] = "get"
    /\ QueueOf(w) # <<>>
    /\ wjob' = [wjob EXCEPT ![w] = Head(QueueOf(w))]
    /\ wpc' = [wpc EXCEPT ![w] = "gate"]
    /\ IF is_high(w)
       THEN _high_q' = Tail(_high_q) /\ UNCHANGED _bg_q
       ELSE _bg_q' = Tail(_bg_q) /\ UNCHANGED _high_q
    /\ UNCHANGED <<_bg_enabled, _recent_403, _last_403_ts, _pause_until,
                   file_ready, queue_paused, env_vars, ui_vars>>

\* lines 83-103: the two gates, the skip, the start of the fetch
WorkerGate(w, t) ==
    /\ wpc[w] = "gate"
    /\ IF ThrottleGate(t) \/ BackgroundGate(w)
       THEN /\ PutBack(w, wjob[w])
            /\ wjob' = [wjob EXCEPT ![w] = NoJob]
            /\ wpc' = [wpc EXCEPT ![w] = "get"]
            /\ UNCHANGED file_ready
       ELSE IF SkipFetch(wjob[w])
       THEN /\ file_ready' = Emit(file_ready, wjob[w].song, TRUE)
            /\ wjob' = [wjob EXCEPT ![w] = NoJob]
            /\ wpc' = [wpc EXCEPT ![w] = "get"]
            /\ UNCHANGED <<_high_q, _bg_q>>
       ELSE \* progress.emit(title, 0, "", "", category), then the adapter runs
            /\ wpc' = [wpc EXCEPT ![w] = "fetch"]
            /\ UNCHANGED <<wjob, file_ready, _high_q, _bg_q>>
    /\ UNCHANGED <<_bg_enabled, _recent_403, _last_403_ts, _pause_until,
                   queue_paused, env_vars, ui_vars>>

\* The exception escaping the loop: the thread ends, nothing is emitted.
WorkerRaise_Uncaught(w, t) ==
    /\ wpc[w] = "gate"
    /\ ~(ThrottleGate(t) \/ BackgroundGate(w))
    /\ wpc' = [wpc EXCEPT ![w] = "dead"]
    /\ UNCHANGED <<wjob, file_ready, _high_q, _bg_q, _bg_enabled, _recent_403,
                   _last_403_ts, _pause_until, queue_paused, env_vars, ui_vars>>

\* lines 97-113: past the gates, outp.exists() or progress.emit raises: the
\* except clause emits the failure, the finally clause runs, the loop goes on
WorkerRaise(w, t) ==
    /\ wpc[w] = "gate"
    /\ ~(ThrottleGate(t) \/ BackgroundGate(w))
    /\ file_ready' = Emit(file_ready, wjob[w].song, FALSE)
    /\ wjob' = [wjob EXCEPT ![w] = NoJob]
    /\ wpc' = [wpc EXCEPT ![w] = "get"]
    /\ UNCHANGED <<_high_q, _bg_q, _bg_enabled, _recent_403, _last_403_ts,
                   _pause_until, queue_paused, env_vars, ui_vars>>


\* What _download_song_file (or an exception in the try block) can end in.
Outcomes == {"ok", "failed", "rate_limited", "raised"}

\* lines 104-113: the adapter returns (or the try block raises); one emit
WorkerFetchDone(w, outcome) ==
    /\ wpc[w] = "fetch"
    /\ file_ready' = Emit(file_ready, wjob[w].song, outcome = "ok")
    /\ files' = IF outcome = "ok"
                THEN files \cup {expected_path(wjob[w].song)}
                ELSE files
    /\ seen_403' = IF outcome = "rate_limited"
                   THEN (IF seen_403 < ThrottleN THEN seen_403 + 1 ELSE seen_403)
                   ELSE 0
    /\ wjob' = [wjob EXCEPT ![w] = NoJob]
    /\ wpc' = [wpc EXCEPT ![w] = "get"]
    /\ UNCHANGED <<_high_q, _bg_q, _bg_enabled, _recent_403, _last_403_ts,
                   _pause_until, queue_paused, ui_vars>>

\* ------------------------------------------------------------ the Fetch Adapter

\* What the environment does during one call of _download_song_file: whether
\* mkdir and subprocess.run raise, and, if the process ran, its exit status, its
\* output and whether the destination file exists afterwards.
AdapterEnvs ==
    [mkdir : {"ok", "raises"},
     run : {"ok", "raises"},
     returncode : {0, 1},
     stderr : {"", "ERROR: HTTP Error 403: Forbidden"},
     stdout : {"", "Deleting original file"},
     exists_after : BOOLEAN]

\* The call returns (ok, msg).
Returns(ok, msg) == [raised |-> FALSE, ok |-> ok, msg |-> msg]

\* The call ends in an exception that the caller sees.
Raises(e) == [raised |-> TRUE, ok |-> FALSE, msg |-> e]

\* _download_song_file(s, out_path), the environment behaving as env
_download_song_file(s, env) ==
    IF env.mkdir = "raises"
    THEN Raises("OSError")
    ELSE IF env.run = "raises"
    THEN Returns(FALSE, "OSError")
    ELSE IF env.returncode = 0 /\ env.exists_after
    THEN Returns(TRUE, "ok")
    ELSE LET err == IF env.stderr # "" THEN env.stderr ELSE env.stdout
         IN Returns(FALSE, IF err # "" THEN err ELSE "Download failed")

\* The external process ran to its end.
ProcessRan(env) == env.mkdir = "ok" /\ env.run = "ok"

\* lines 104-113, the adapter's call spelled out: the worker emits the event
\* for what the adapter returned, or the failure event of the except clause
WorkerFetch(w, env) ==
    /\ wpc[w] = "fetch"
    /\ expected_path(wjob[w].song) \in files => env.exists_after
    /\ LET r == _download_song_file(wjob[w].song, env)
       IN /\ file_ready' = Emit(file_ready, wjob[w].song, ~r.raised /\ r.ok)
          /\ seen_403' = IF ~r.raised /\ ~r.ok /\ env.run = "ok" /\ env.stderr # ""
                         THEN (IF seen_403 < ThrottleN THEN seen_403 + 1 ELSE seen_403)
                         ELSE 0
    /\ files' = IF ProcessRan(env) /\ env.exists_after
                THEN files \cup {expected_path(wjob[w].song)}
                ELSE files
    /\ wjob' = [wjob EXCEPT ![w] = NoJob]
    /\ wpc' = [wpc EXCEPT ![w] = "get"]
    /\ UNCHANGED <<_high_q, _bg_q, _bg_enabled, _recent_403, _last_403_ts,
                   _pause_until, queue_paused, ui_vars>>


\* ----------------------------------- DownloadManager under an arbitrary client

\* Jobs queued or held by a worker, and completion events not yet delivered.
Load(hq, bq, evs) ==
    Len(hq) + Len(bq) + Cardinality({w \in Workers : wpc[w] # "get"}) + Len(evs)

\* A client calls enqueue_high(song, refresh).
CallEnqueueHigh(s, r) ==
    /\ Load(_high_q, _bg_q, file_ready) < MaxJobs
    /\ _high_q' = enqueue_high(_high_q, s, r)
    /\ UNCHANGED <<_bg_q, _bg_enabled, _recent_403, _last_403_ts, _pause_until,
                   wpc, wjob, file_ready, queue_paused, env_vars, ui_vars>>

\* A client calls enqueue_background_many(songs).
CallEnqueueBackgroundMany(songs) ==
    /\ Load(_high_q, _bg_q, file_ready) + Len(songs) <= MaxJobs
    /\ _bg_q' = enqueue_background_many(_bg_q, songs)
    /\ UNCHANGED <<_high_q, _bg_enabled, _recent_403, _last_403_ts, _pause_until,
                   wpc, wjob, file_ready, queue_paused, env_vars, ui_vars>>

\* resume_background() / pause_background()
SetBackground(on) ==
    /\ _bg_enabled' = on
    /\ UNCHANGED <<_high_q, _bg_q, _recent_403, _last_403_ts, _pause_until,
                   wpc, wjob, file_ready, queue_paused, env_vars, ui_vars>>

\* The connected slot receives the oldest file_ready event.
Deliver ==
    /\ file_ready # <<>>
    /\ file_ready' = Tail(file_ready)
    /\ UNCHANGED <<_high_q, _bg_q, _bg_enabled, _recent_403, _last_403_ts,
                   _pause_until, wpc, wjob, queue_paused, env_vars, ui_vars>>

\* Lists of songs a client may hand to enqueue_background_many.
SongLists == {<<s>> : s \in Songs} \cup {<<"a1", "a2">>}

\* ------------------------------------------------------------------ MyPlayerMain

\* What the Qt thread's handlers read and write, as one record: a handler is a
\* function from this record to this record, so that the calls a handler makes
\* compose in the order of the source.
UiState ==
    [current_category |-> current_category,
     current_list |-> current_list,
     play_queue |-> play_queue,
     play_index |-> play_index,
     play_context |-> play_context,
     current_song_key |-> current_song_key,
     player_source |-> player_source,
     _duration_ms |-> _duration_ms,
     _prefetch_triggered |-> _prefetch_triggered,
     _prefetch_in_progress |-> _prefetch_in_progress,
     _prefetch_next_key |-> _prefetch_next_key,
     _pending_autoplay_key |-> _pending_autoplay_key,
     _deferred_hi |-> _deferred_hi,
     pf_submits |-> pf_submits,
     _high_q |-> _high_q,
     _bg_q |-> _bg_q,
     _bg_enabled |-> _bg_enabled]

\* The handler's result becomes the state; the bounds hold of it.
Commit(st, evs) ==
    /\ Load(st._high_q, st._bg_q, evs) <= MaxJobs
    /\ Len(st._deferred_hi) <= MaxDeferred
    /\ Load(st._high_q, st._bg_q, evs) + Len(st._deferred_hi) <= MaxWork
    /\ current_category' = st.current_category
    /\ current_list' = st.current_list
    /\ play_queue' = st.play_queue
    /\ play_index' = st.play_index
    /\ play_context' = st.play_context
    /\ current_song_key' = st.current_song_key
    /\ player_source' = st.player_source
    /\ _duration_ms' = st._duration_ms
    /\ _prefetch_triggered' = st._prefetch_triggered
    /\ _prefetch_in_progress' = st._prefetch_in_progress
    /\ _prefetch_next_key' = st._prefetch_next_key
    /\ _pending_autoplay_key' = st._pending_autoplay_key
    /\ _deferred_hi' = st._deferred_hi
    /\ pf_submits' = st.pf_submits
    /\ _high_q' = st._high_q
    /\ _bg_q' = st._bg_q
    /\ _bg_enabled' = st._bg_enabled
    /\ file_ready' = evs
    /\ UNCHANGED <<_recent_403, _last_403_ts, _pause_until, wpc, wjob,
                   queue_paused, env_vars>>

\* MyPlayerMain.__init__
UiInit ==
    /\ current_category = None
    /\ current_list = <<>>
    /\ play_queue = <<>>
    /\ play_index = -1
    /\ play_context = NoContext
    /\ current_song_key = None
    /\ player_source = None
    /\ _duration_ms = 0
    /\ _prefetch_triggered = FALSE
    /\ _prefetch_in_progress = FALSE
    /\ _prefetch_next_key = None
    /\ _pending_autoplay_key = None
    /\ _deferred_hi = <<>>
    /\ pf_submits = 0

\* _view_identity(): (kind, name) of the current view
_view_identity(st) ==
    IF st.current_category = PlaylistView
    THEN <<"playlist", "P">>
    ELSE IF st.current_category # None
    THEN <<"category", st.current_category>>
    ELSE <<"category", "">>

\* _base_list_for_current_view(), for the view named c
_base_list_for_current_view(c) ==
    IF c = PlaylistView
    THEN playlists.P
    ELSE IF c \in Categories THEN library[c] ELSE <<>>

\* _apply_search_now() with a blank query: current_list = the view's base list
_apply_search_now(st) ==
    [st EXCEPT !.current_list = _base_list_for_current_view(st.current_category)]

\* _open_category_silent(name)
_open_category_silent(st, name) ==
    _apply_search_now([st EXCEPT !.current_category = name])

\* _play_file without the reset of the prefetch fields.
_play_file_NoReset(st, path, s) ==
    [st EXCEPT !._pending_autoplay_key = None,
               !.current_song_key = key(s),
               !.player_source = path,
               !.pf_submits = 0]

\* _play_file(path, s)
_play_file(st, path, s) ==
    [st EXCEPT !._prefetch_triggered = FALSE,
               !._prefetch_in_progress = FALSE,
               !._prefetch_next_key = None,
               !._pending_autoplay_key = None,
               !.current_song_key = key(s),
               !.player_source = path,
               !.pf_submits = 0]

\* The fetch submitted without remembering the target as the pending autoplay.
PlayOrFetch_NoPending(st, s) ==
    IF resolve_existing_file(s) \in files
    THEN _play_file(st, resolve_existing_file(s), s)
    ELSE [st EXCEPT !._high_q = enqueue_high(@, s, FALSE)]

\* The transitions' common tail: play s if its file exists, else fetch it and
\* remember it as the pending autoplay.
PlayOrFetch(st, s) ==
    IF resolve_existing_file(s) \in files
    THEN _play_file(st, resolve_existing_file(s), s)
    ELSE [st EXCEPT !._pending_autoplay_key = key(s),
                    !._high_q = enqueue_high(@, s, FALSE)]

\* _start_playback_from_row(row)
_start_playback_from_row(st, row) ==
    IF row < 0 \/ row >= Len(st.current_list)
    THEN st
    ELSE LET st1 == [st EXCEPT !.play_queue = st.current_list,
                               !.play_index = row,
                               !.play_context = _view_identity(st)]
         IN PlayOrFetch(st1, st1.play_queue[row + 1])

\* sorted(self.library.keys(), key=lambda x: x.lower())
SortedCategoriesLower == <<"A", "B">>

\* sorted(self.library.keys())
SortedCategories == <<"A", "B">>

RECURSIVE Flatten(_)
Flatten(cats) ==
    IF cats = <<>> THEN <<>> ELSE library[Head(cats)] \o Flatten(Tail(cats))

\* _all_songs_global_in_order()
_all_songs_global_in_order == Flatten(SortedCategoriesLower)

\* The 1-based places of the songs of seq whose key is k.
PlacesOf(seq, k) == {i \in 1 .. Len(seq) : key(seq[i]) = k}

Min(S) == CHOOSE x \in S : \A y \in S : x <= y

\* The next song looked for in the song's own category only.
_next_global_after_key_SameCategory(k) ==
    LET rows == library[category_of(k)]
    IN rows[(Min(PlacesOf(rows, k)) % Len(rows)) + 1]

\* _next_global_after_key(k)
_next_global_after_key(k) ==
    LET all_songs == _all_songs_global_in_order
    IN IF all_songs = <<>>
       THEN None
       ELSE IF PlacesOf(all_songs, k) # {}
       THEN all_songs[(Min(PlacesOf(all_songs, k)) % Len(all_songs)) + 1]
       ELSE all_songs[1]

\* cats.index(name), 0-based, or -1
IndexOf(cats, name) ==
    IF \E i \in 1 .. Len(cats) : cats[i] = name
    THEN Min({i \in 1 .. Len(cats) : cats[i] = name}) - 1
    ELSE -1

\* _next_in_queue_index(): the index, and the state it leaves
_next_in_queue_index(st) ==
    IF st.play_queue = <<>>
    THEN [st |-> st, idx |-> NoIndex]
    ELSE IF st.play_index < 0
    THEN [st |-> st, idx |-> 0]
    ELSE IF st.play_index + 1 < Len(st.play_queue)
    THEN [st |-> st, idx |-> st.play_index + 1]
    ELSE LET vi == _view_identity(st)
             cats == SortedCategories
         IN IF vi[1] # "category" \/ vi[2] = "" \/ cats = <<>>
            THEN [st |-> st, idx |-> 0]
            ELSE LET next_cat == cats[((IndexOf(cats, vi[2]) + 1) % Len(cats)) + 1]
                     st1 == _open_category_silent(st, next_cat)
                 IN [st |-> [st1 EXCEPT !.play_queue = library[next_cat],
                                        !.play_context = <<"category", next_cat>>,
                                        !.play_index = -1],
                     idx |-> 0]

\* The decrement without the wrap: from the first row, the first row again.
_prev_in_queue_index_NoWrap(st) ==
    IF st.play_queue = <<>>
    THEN NoIndex
    ELSE IF st.play_index <= 0
    THEN 0
    ELSE st.play_index - 1


\* _prev_in_queue_index()
_prev_in_queue_index(st) ==
    IF st.play_queue = <<>>
    THEN NoIndex
    ELSE IF st.play_index < 0
    THEN 0
    ELSE (st.play_index - 1) % Len(st.play_queue)

\* _next_song()
_next_song(st) ==
    LET r == _next_in_queue_index(st)
        st1 == r.st
    IN IF r.idx = NoIndex \/ st1.play_queue = <<>>
       THEN st1
       ELSE IF (st1.play_index + 1) % Len(st1.play_queue) = 0
               /\ st1.current_song_key # None
       THEN LET s == _next_global_after_key(st1.current_song_key)
            IN IF s = None
               THEN PlayOrFetch([st1 EXCEPT !.play_index = r.idx],
                                st1.play_queue[r.idx + 1])
               ELSE IF resolve_existing_file(s) \in files
               THEN _play_file([st1 EXCEPT !.play_queue = <<s>>,
                                           !.play_index = 0,
                                           !.play_context = <<"category", category_of(s)>>],
                               resolve_existing_file(s), s)
               ELSE [st1 EXCEPT !._pending_autoplay_key = key(s),
                                !._high_q = enqueue_high(@, s, FALSE)]
       ELSE PlayOrFetch([st1 EXCEPT !.play_index = r.idx], st1.play_queue[r.idx + 1])

\* _prev_song()
_prev_song(st) ==
    LET idx == _prev_in_queue_index(st)
    IN IF idx = NoIndex
       THEN st
       ELSE PlayOrFetch([st EXCEPT !.play_index = idx], st.play_queue[idx + 1])

\* The latch without "self._prefetch_triggered = True".
MarkPrefetch_NoLatch(st, nxt, in_progress) ==
    [st EXCEPT !._prefetch_in_progress = in_progress,
               !._prefetch_next_key = key(nxt)]

\* lines 376-378 and 381-383: the latch and the prefetch target
MarkPrefetch(st, nxt, in_progress) ==
    [st EXCEPT !._prefetch_triggered = TRUE,
               !._prefetch_in_progress = in_progress,
               !._prefetch_next_key = key(nxt)]

\* The prefetch submitted whether or not the next track's file exists.
_start_next_prefetch_AlwaysFetch(st) ==
    IF st._prefetch_triggered
    THEN st
    ELSE LET r == _next_in_queue_index(st)
             st1 == r.st
         IN IF r.idx = NoIndex \/ st1.play_queue = <<>>
            THEN st1
            ELSE LET nxt == st1.play_queue[r.idx + 1]
                 IN [MarkPrefetch(st1, nxt, TRUE)
                         EXCEPT !._high_q = enqueue_high(@, nxt, FALSE),
                                !.pf_submits = IF @ < 2 THEN @ + 1 ELSE @]

\* _start_next_prefetch()
_start_next_prefetch(st) ==
    IF st._prefetch_triggered
    THEN st
    ELSE LET r == _next_in_queue_index(st)
             st1 == r.st
         IN IF r.idx = NoIndex \/ st1.play_queue = <<>>
            THEN st1
            ELSE LET nxt == st1.play_queue[r.idx + 1]
                 IN IF resolve_existing_file(nxt) \in files
                    THEN MarkPrefetch(st1, nxt, FALSE)
                    ELSE [MarkPrefetch(st1, nxt, TRUE)
                              EXCEPT !._high_q = enqueue_high(@, nxt, FALSE),
                                     !.pf_submits = IF @ < 2 THEN @ + 1 ELSE @]

\* lines 409-413: the trigger condition of _on_pos_changed
PrefetchDue(st, pos_ms) ==
    /\ st._duration_ms > 0
    /\ (st._duration_ms - pos_ms) <= PREFETCH_MS
    /\ ~st._prefetch_triggered

\* _on_pos_changed(pos_ms)
_on_pos_changed(st, pos_ms) ==
    IF PrefetchDue(st, pos_ms) THEN _start_next_prefetch(st) ELSE st

\* _on_duration_changed(dur_ms)
_on_duration_changed(st, dur_ms) ==
    [st EXCEPT !._duration_ms = IF dur_ms > 0 THEN dur_ms ELSE 0]

\* The rows of self.library.values(), in dict order
LibraryRows == library.A \o library.B

IsMissing(s) == expected_path(s) \notin files

\* The scan stopping after the first category.
_missing_songs_FirstCategory == SelectSeq(library.A, IsMissing)

\* _missing_songs()
_missing_songs == SelectSeq(LibraryRows, IsMissing)

\* _resume_background_missing()
_resume_background_missing(st) ==
    IF st._high_q # <<>> \/ st._prefetch_in_progress
    THEN st
    ELSE [st EXCEPT !._bg_enabled = TRUE,
                    !._bg_q = enqueue_background_many(@, _missing_songs)]

\* The drain with pop() in place of popleft(): the newest request leaves first.
_drain_deferred_if_idle_Lifo(st) ==
    IF st._high_q = <<>> /\ ~st._prefetch_in_progress /\ st._deferred_hi # <<>>
    THEN LET n == Len(st._deferred_hi)
         IN [st EXCEPT !._deferred_hi = SubSeq(@, 1, n - 1),
                       !._high_q = enqueue_high(@, st._deferred_hi[n][1],
                                                st._deferred_hi[n][2])]
    ELSE st

\* _drain_deferred_if_idle()
_drain_deferred_if_idle(st) ==
    IF st._high_q = <<>> /\ ~st._prefetch_in_progress /\ st._deferred_hi # <<>>
    THEN [st EXCEPT !._deferred_hi = Tail(@),
                    !._high_q = enqueue_high(@, Head(st._deferred_hi)[1],
                                             Head(st._deferred_hi)[2])]
    ELSE st

\* The success branch clearing the prefetch target but not the in-progress flag.
OnReadyOk_KeepInProgress(st, song, path_or_err) ==
    LET k == key(song)
        st1 == IF st._pending_autoplay_key # None /\ st._pending_autoplay_key = k
               THEN _play_file([st EXCEPT !._pending_autoplay_key = None],
                               path_or_err, song)
               ELSE st
    IN IF st1._prefetch_in_progress /\ st1._prefetch_next_key = k
       THEN _drain_deferred_if_idle([st1 EXCEPT !._prefetch_next_key = None])
       ELSE st1

\* The success branch starting the completed song whatever the pending key is.
OnReadyOk_AnyAutoplay(st, song, path_or_err) ==
    LET k == key(song)
        st1 == _play_file(st, path_or_err, song)
    IN IF st1._prefetch_in_progress /\ st1._prefetch_next_key = k
       THEN _drain_deferred_if_idle([st1 EXCEPT !._prefetch_in_progress = FALSE,
                                                 !._prefetch_next_key = None])
       ELSE st1


\* _on_file_ready(song, ok, path_or_err), lines 153-171: the success branch
OnReadyOk(st, song, path_or_err) ==
    LET k == key(song)
        st1 == IF st._pending_autoplay_key # None /\ st._pending_autoplay_key = k
               THEN _play_file([st EXCEPT !._pending_autoplay_key = None],
                               path_or_err, song)
               ELSE st
    IN IF st1._prefetch_in_progress /\ st1._prefetch_next_key = k
       THEN _drain_deferred_if_idle([st1 EXCEPT !._prefetch_in_progress = FALSE,
                                                 !._prefetch_next_key = None])
       ELSE st1

\* _on_file_ready, lines 178-184: what follows either branch
OnReadyTail(st) ==
    IF st._high_q = <<>>
    THEN IF st._deferred_hi # <<>>
         THEN _drain_deferred_if_idle(st)
         ELSE IF ~st._prefetch_in_progress
         THEN _resume_background_missing(st)
         ELSE st
    ELSE st

\* _on_file_ready(song, ok, path_or_err)
_on_file_ready(st, ev) ==
    OnReadyTail(IF ev.ok THEN OnReadyOk(st, ev.song, ev.msg) ELSE st)

\* The refresh without the deferral: always submitted at once.
_refresh_download_NoDefer(st, s) ==
    [st EXCEPT !._pending_autoplay_key = None,
               !._high_q = enqueue_high(@, s, TRUE)]

\* _refresh_download(s)
_refresh_download(st, s) ==
    IF st._prefetch_in_progress /\ st._prefetch_next_key # key(s)
    THEN [st EXCEPT !._deferred_hi = Append(@, <<s, TRUE>>)]
    ELSE LET nxt == _next_global_after_key(st.current_song_key)
             st1 == IF st.current_song_key # None /\ st.current_song_key = key(s)
                       /\ nxt # None
                    THEN PlayOrFetch(st, nxt)
                    ELSE st
         IN [st1 EXCEPT !._pending_autoplay_key = None,
                        !._high_q = enqueue_high(@, s, TRUE)]

\* _delete_file_for_song(s), lines 213-224: the hop off the playing song
_delete_file_for_song(st, s) ==
    LET nxt == _next_global_after_key(st.current_song_key)
    IN IF st.current_song_key # None /\ st.current_song_key = key(s) /\ nxt # None
       THEN PlayOrFetch(st, nxt)
       ELSE st

\* ---- the Qt thread's events

\* The user selects a category or a playlist (_on_cat_selected, _on_pl_selected).
SelectView(c) ==
    /\ c # current_category
    /\ Commit(_open_category_silent(UiState, c), file_ready)

\* The user double-clicks a row (_play_selected).
PlaySelected(row) ==
    /\ row < Len(current_list)
    /\ Commit(_start_playback_from_row(UiState, row), file_ready)

\* The next button, or end of media (_on_media_status).
NextSong ==
    /\ play_queue # <<>>
    /\ Commit(_next_song(UiState), file_ready)

\* The previous button.
PrevSong ==
    /\ play_queue # <<>>
    /\ Commit(_prev_song(UiState), file_ready)

\* The player reports the duration of the file it plays.
DurationChanged ==
    /\ current_song_key # None
    /\ _duration_ms # SongDur
    /\ Commit(_on_duration_changed(UiState, SongDur), file_ready)

\* Positions the player reports: just outside and just inside the prefetch window.
Positions == {SongDur - PREFETCH_MS - 1, SongDur - PREFETCH_MS}

\* The player reports a position while it plays a file.
PosChanged(pos_ms) ==
    /\ current_song_key # None
    /\ Commit(_on_pos_changed(UiState, pos_ms), file_ready)

\* The context menu's "refresh" on a row of the table.
Refresh(row) ==
    /\ row < Len(current_list)
    /\ Commit(_refresh_download(UiState, current_list[row + 1]), file_ready)

\* The context menu's "delete file" on a row of the table, the question answered
\* with no: the hop off the playing song is made, the file stays.
DeleteDismissed(row) ==
    /\ row < Len(current_list)
    /\ Commit(_delete_file_for_song(UiState, current_list[row + 1]), file_ready)

\* The Qt thread delivers the oldest file_ready event to _on_file_ready.
FileReady ==
    /\ file_ready # <<>>
    /\ Commit(_on_file_ready(UiState, Head(file_ready)), Tail(file_ready))

\* The File menu's "Reload CSVs" (_reload_csvs), the CSV files unchanged.
ReloadCsvs ==
    Commit(_resume_background_missing(_apply_search_now(UiState)), file_ready)

Rows == 0 .. 1

Init ==
    /\ DlmInit
    /\ UiInit
    /\ files = {}
    /\ seen_403 = 0

\* What the adapter's result means to the program: the file is there, or not.
AppOutcomes == {"ok", "failed"}

Next ==
    \/ \E w \in Workers : WorkerGet(w)
    \/ \E w \in Workers, t \in Clock : WorkerGate(w, t)
    \/ \E w \in Workers, o \in AppOutcomes : WorkerFetchDone(w, o)
    \/ \E c \in Categories : SelectView(c)
    \/ \E row \in Rows : PlaySelected(row)
    \/ NextSong
    \/ PrevSong
    \/ DurationChanged
    \/ \E pos_ms \in Positions : PosChanged(pos_ms)
    \/ \E row \in Rows : Refresh(row)
    \/ FileReady

\* The application with the user in the category views: the window's handlers and
\* the download manager's workers.
Spec == Init /\ [][Next]_vars

NextBrowse ==
    \/ \E w \in Workers : WorkerGet(w)
    \/ \E w \in Workers, t \in Clock : WorkerGate(w, t)
    \/ \E w \in Workers, o \in AppOutcomes : WorkerFetchDone(w, o)
    \/ \E c \in Views : SelectView(c)
    \/ \E row \in Rows : PlaySelected(row)
    \/ NextSong
    \/ PrevSong
    \/ DurationChanged
    \/ \E pos_ms \in Positions : PosChanged(pos_ms)
    \/ ReloadCsvs
    \/ FileReady

\* The application with the user in the category and playlist views, playing,
\* skipping and reloading the library, never asking for a refresh.
SpecBrowse == Init /\ [][NextBrowse]_vars

NextEdit ==
    \/ \E w \in Workers : WorkerGet(w)
    \/ \E w \in Workers, t \in Clock : WorkerGate(w, t)
    \/ \E w \in Workers, o \in AppOutcomes : WorkerFetchDone(w, o)
    \/ \E c \in Categories : SelectView(c)
    \/ \E row \in Rows : PlaySelected(row)
    \/ PrevSong
    \/ DurationChanged
    \/ \E pos_ms \in Positions : PosChanged(pos_ms)
    \/ \E row \in Rows : Refresh(row)
    \/ \E row \in Rows : DeleteDismissed(row)
    \/ FileReady

\* The application with the user in the category views, playing, going back,
\* asking for refreshes and opening the delete question.
SpecEdit == Init /\ [][NextEdit]_vars

\* One iteration step of a worker thread.
WorkerStep(w) ==
    \/ WorkerGet(w)
    \/ \E t \in Clock : WorkerGate(w, t)
    \/ \E o \in AppOutcomes : WorkerFetchDone(w, o)

\* SpecBrowse with the scheduling of the worker threads: each is a daemon
\* thread in a loop of its own, so a worker that can take a step (a job is
\* queued for it, or the adapter returns) eventually takes one.
SpecFair ==
    /\ Init
    /\ [][NextBrowse]_vars
    /\ \A w \in Workers : WF_vars(WorkerStep(w))

\* Spec with the scheduling of the threads: a worker thread that can take a step
\* eventually takes one, and the Qt event loop eventually delivers a queued
\* file_ready; nothing is assumed of the user.
SpecLive ==
    /\ Init
    /\ [][Next]_vars
    /\ \A w \in Workers : WF_vars(WorkerStep(w))
    /\ WF_vars(FileReady)


NextDlm ==
    \/ \E w \in Workers : WorkerGet(w)
    \/ \E w \in Workers, t \in Clock : WorkerGate(w, t)
    \/ \E w \in Workers, o \in Outcomes : WorkerFetchDone(w, o)
    \/ \E s \in Songs, r \in BOOLEAN : CallEnqueueHigh(s, r)
    \/ \E l \in SongLists : CallEnqueueBackgroundMany(l)
    \/ \E on \in BOOLEAN : SetBackground(on)
    \/ Deliver

\* The DownloadManager with its public methods called in any order.
SpecDlm == Init /\ [][NextDlm]_vars

\* SpecDlm with the scheduling of the interactive worker threads only: an
\* interactive worker that can take a step eventually takes one; nothing is
\* assumed of the background workers, of the client or of the event loop.
SpecHiFair ==
    /\ Init
    /\ [][NextDlm]_vars
    /\ \A w \in HiWorkers : WF_vars(WorkerStep(w))


NextDlmRaise ==
    \/ NextDlm
    \/ \E w \in Workers, t \in Clock : WorkerRaise(w, t)

\* SpecDlm with exceptions in the file-existence check and the started
\* notification as well as in the adapter call.
SpecDlmRaise == Init /\ [][NextDlmRaise]_vars


NextAdapter ==
    \/ \E w \in Workers : WorkerGet(w)
    \/ \E w \in Workers, t \in Clock : WorkerGate(w, t)
    \/ \E w \in Workers, env \in AdapterEnvs : WorkerFetch(w, env)
    \/ \E s \in Songs, r \in BOOLEAN : CallEnqueueHigh(s, r)
    \/ \E l \in SongLists : CallEnqueueBackgroundMany(l)
    \/ \E on \in BOOLEAN : SetBackground(on)
    \/ Deliver

\* The DownloadManager with its public methods called in any order, the
\* adapter's call spelled out with what the environment can do to it.
SpecAdapter == Init /\ [][NextAdapter]_vars


\* ------------------------------------------------------------------ claims

\* A worker goes past the gates with the job it holds: the throttle is clear and
\* the worker is interactive or the background is enabled.
Processes(w) ==
    /\ wpc[w] = "gate"
    /\ wpc'[w] # "gate"
    /\ _pause_until = 0
    /\ (is_high(w) \/ _bg_enabled)

\* C1: a job whose expected file exists when a worker processes it: with
\* refresh false the worker goes back to its queue without entering the fetch
\* and emits exactly the event (song, ok=true, expected path); with refresh
\* true it enters the fetch and emits nothing yet.
C1_SkipExisting ==
    [][\A w \in Workers :
         Processes(w) /\ expected_path(wjob[w].song) \in files =>
             IF wjob[w].refresh
             THEN /\ wpc'[w] = "fetch"
                  /\ wjob'[w] = wjob[w]
                  /\ file_ready' = file_ready
             ELSE /\ wpc'[w] = "get"
                  /\ file_ready' = Append(file_ready,
                                          [song |-> wjob[w].song, ok |-> TRUE,
                                           msg |-> expected_path(wjob[w].song)])]_vars

\* C1: one worker runs the fetch of a refresh job whose file exists while
\* another holds, at the gates, a plain job whose file exists.
C1_Witness ==
    /\ \E w \in Workers :
         /\ wpc[w] = "fetch"
         /\ wjob[w].refresh
         /\ expected_path(wjob[w].song) \in files
    /\ \E w \in Workers :
         /\ wpc[w] = "gate"
         /\ ~wjob[w].refresh
         /\ expected_path(wjob[w].song) \in files
         /\ (is_high(w) \/ _bg_enabled)

\* C2: at most one worker runs the fetch for a given song (its key, hence its
\* destination path) at any time.
C2_AtMostOneFetchPerSong ==
    \A w1, w2 \in Workers :
        /\ wpc[w1] = "fetch"
        /\ wpc[w2] = "fetch"
        /\ key(wjob[w1].song) = key(wjob[w2].song)
        => w1 = w2

\* C3: once ThrottleN consecutive fetches have failed with a rate-limit-class
\* error, the throttle state records it (failure count, timestamp), pause_until
\* is set and a queue_paused event has been emitted.
C3_ThrottleTrips ==
    seen_403 >= ThrottleN =>
        /\ _recent_403 >= ThrottleN
        /\ _last_403_ts > 0
        /\ _pause_until > 0
        /\ queue_paused # <<>>

\* C5: a background worker that leaves the gates with the flag false has put
\* its job back at the tail of the background queue, emitted nothing and not
\* entered the fetch; an interactive worker that leaves the gates has entered
\* the fetch or emitted the completion, whatever the flag, and put nothing back.
C5_BackgroundGate ==
    [][\A w \in Workers :
         wpc[w] = "gate" /\ wpc'[w] # "gate" /\ _pause_until = 0 =>
             IF is_high(w)
             THEN /\ _high_q' = _high_q
                  /\ \/ wpc'[w] = "fetch"
                     \/ file_ready' = Append(file_ready, Event(wjob[w].song, TRUE))
             ELSE ~_bg_enabled =>
                      /\ wpc'[w] = "get"
                      /\ _bg_q' = Append(_bg_q, wjob[w])
                      /\ file_ready' = file_ready]_vars

\* C5: with the flag false, a background worker holds a job at the gates while
\* an interactive worker runs a fetch.
C5_Witness ==
    /\ ~_bg_enabled
    /\ \E w \in BgWorkers : wpc[w] = "gate"
    /\ \E w \in HiWorkers : wpc[w] = "fetch"

\* C6: between two calls of _play_file the prefetch scheduler submits at most
\* one high-priority job, however many position updates arrive.
C6_PrefetchSingleShot == pf_submits <= 1

\* C6: the scheduler has submitted its job for the track that plays and the
\* latch is set.
C6_Witness ==
    /\ pf_submits = 1
    /\ _prefetch_triggered
    /\ _prefetch_in_progress
    /\ current_song_key # None

\* C7: the deferred buffer is a FIFO: a request enters at its tail only, and
\* leaves from its head only, submitted to the high-priority queue as it
\* leaves; so requests are submitted in the order they were deferred.
C7_DeferredFifo ==
    [][\/ _deferred_hi' = _deferred_hi
       \/ \E s \in Songs, r \in BOOLEAN : _deferred_hi' = Append(_deferred_hi, <<s, r>>)
       \/ /\ _deferred_hi # <<>>
          /\ _deferred_hi' = Tail(_deferred_hi)
          /\ _high_q' = Append(_high_q, DownloadJob(Head(_deferred_hi)[1],
                                                    Head(_deferred_hi)[2], TRUE))]_vars

\* C7: X then Y wait in the deferred buffer while the prefetch of Z, another
\* song, is in flight; Z's completion is the next event delivered and
\* _on_file_ready can handle it.
C7_Witness ==
    /\ \E x, y \in Songs :
        /\ x # y
        /\ _deferred_hi = << <<x, TRUE>>, <<y, TRUE>> >>
        /\ _prefetch_in_progress
        /\ _prefetch_next_key \notin {None, key(x), key(y)}
    /\ _high_q = <<>>
    /\ file_ready # <<>>
    /\ Head(file_ready) = Event(_prefetch_next_key, TRUE)
    /\ ENABLED FileReady

\* The jobs a step appended to the background queue.
AddedBg == SubSeq(_bg_q', Len(_bg_q) + 1, Len(_bg_q'))

GlobalOrder == <<"a1", "a2", "b1">>

\* The track after k in GlobalOrder, the last wrapping to the first.
AfterInGlobalOrder(k) ==
    LET i == CHOOSE j \in 1 .. Len(GlobalOrder) : GlobalOrder[j] = k
    IN GlobalOrder[(i % Len(GlobalOrder)) + 1]

\* C9: next at the last track of the play queue, in category context, with a
\* current track: the target is the track after the current key in GlobalOrder
\* (from a2: b1; from b1: a1).  The target is played if its file exists, and
\* otherwise fetched and remembered as the pending autoplay.
C9_GlobalNextWraps ==
    (/\ play_queue # <<>>
     /\ play_index = Len(play_queue) - 1
     /\ play_context # NoContext
     /\ play_context[1] = "category"
     /\ current_song_key # None)
    => LET st == _next_song(UiState)
           t == AfterInGlobalOrder(current_song_key)
       IN IF expected_path(t) \in files
          THEN /\ st.current_song_key = t
               /\ st.play_queue = <<t>>
               /\ st.play_index = 0
          ELSE /\ st._pending_autoplay_key = t
               /\ st._high_q = Append(_high_q, DownloadJob(t, FALSE, TRUE))
               /\ st.current_song_key = current_song_key

\* C9: next has wrapped from b1, the globally last track, to a1, which plays
\* as a queue of its own.
C9_Witness ==
    /\ play_queue = <<"a1">>
    /\ play_index = 0
    /\ play_context = <<"category", "A">>
    /\ current_song_key = "a1"

\* The job kinds of the interactive lane.
HighJobs == {DownloadJob(s, r, TRUE) : s \in Songs, r \in BOOLEAN}

\* A worker lets go of the job it holds, other than to put it back at a closed
\* background gate.
Completes(w) ==
    /\ wpc[w] # "get"
    /\ wpc'[w] = "get"
    /\ ~(wpc[w] = "gate" /\ ~is_high(w) /\ ~_bg_enabled)

\* The handler's fields are well formed and agree with each other.
HandlerConsistent ==
    /\ _pending_autoplay_key \in {key(s) : s \in Songs} \cup {None}
    /\ _prefetch_next_key \in {key(s) : s \in Songs} \cup {None}
    /\ _prefetch_in_progress => (_prefetch_triggered /\ _prefetch_next_key # None)
    /\ \A i \in 1 .. Len(_deferred_hi) : _deferred_hi[i] \in Songs \X BOOLEAN
    /\ current_song_key # None => expected_path(current_song_key) \in files

\* C10: every job a worker processes produces exactly one completion event:
\* the worker emits one event (song, ok, path or error) for the job's song as
\* it lets the job go, and no event is emitted in any other step; the
\* handler's fields stay consistent; every queued interactive job is taken by
\* a worker (the queue is first-in first-out, and either it empties again and
\* again or its head is taken again and again), and every worker finishes the
\* job it holds, also when the same song is queued twice.
C10_OneCompletionPerJob ==
    /\ [][/\ \A w \in Workers :
               Completes(w) =>
                   \E ok \in BOOLEAN :
                       file_ready' = Append(file_ready,
                           [song |-> wjob[w].song, ok |-> ok,
                            msg |-> IF ok THEN expected_path(wjob[w].song)
                                          ELSE <<"error">>])
          /\ file_ready' # file_ready =>
                 \/ file_ready # <<>> /\ file_ready' = Tail(file_ready)
                 \/ \E w \in Workers : Completes(w)
          /\ _high_q' # _high_q =>
                 \/ _high_q # <<>> /\ _high_q' = Tail(_high_q)
                 \/ \E j \in HighJobs : _high_q' = Append(_high_q, j)
          /\ HandlerConsistent']_vars
    /\ \/ []<>(_high_q = <<>>)
       \/ []<><<_high_q # <<>> /\ _high_q' = Tail(_high_q)>>_vars
    /\ \A w \in Workers : []<>(wpc[w] = "get")

\* C10: the same song is in the system twice: one job for it is being fetched
\* and another, submitted since, is queued, while the song is the pending
\* autoplay.
C10_Witness ==
    \E w \in HiWorkers :
        /\ wpc[w] = "fetch"
        /\ _high_q # <<>>
        /\ Head(_high_q).song = wjob[w].song
        /\ _pending_autoplay_key = key(wjob[w].song)

\* The step starts playing s from its file.
PlaysNow(s) ==
    /\ current_song_key' = key(s)
    /\ player_source' = expected_path(s)
    /\ _pending_autoplay_key' = None
    /\ _high_q' = _high_q

\* The step submits one interactive job (refresh false) for s and makes s the
\* pending autoplay; what plays does not change.
FetchesPending(s) ==
    /\ _high_q' = Append(_high_q, DownloadJob(s, FALSE, TRUE))
    /\ _pending_autoplay_key' = key(s)
    /\ current_song_key' = current_song_key
    /\ player_source' = player_source

PlaysOrFetches(s) ==
    IF expected_path(s) \in files THEN PlaysNow(s) ELSE FetchesPending(s)

\* The song the previous button goes to.
PrevTarget ==
    play_queue[(IF play_index < 0 THEN 0
                ELSE (play_index - 1) % Len(play_queue)) + 1]

\* C11: a transition (play the selected row, next, previous) plays its target
\* at once if the target's file exists, and otherwise submits exactly one
\* interactive job with refresh false for it and makes its key the pending
\* autoplay; handling a successful completion event for the pending key clears
\* the pending key and starts that song from the path the event reports.
C11_PendingAutoplay ==
    [][/\ \A row \in Rows :
            PlaySelected(row) => PlaysOrFetches(current_list[row + 1])
       /\ PrevSong => PlaysOrFetches(PrevTarget)
       /\ NextSong => \E s \in Songs : PlaysOrFetches(s)
       /\ (/\ file_ready # <<>>
           /\ Head(file_ready).ok
           /\ _pending_autoplay_key # None
           /\ _pending_autoplay_key = key(Head(file_ready).song)
           /\ FileReady)
          => /\ _pending_autoplay_key' = None
             /\ current_song_key' = key(Head(file_ready).song)
             /\ player_source' = Head(file_ready).msg]_vars

\* C11: the successful completion event of the pending autoplay is the next one
\* to be handled.
C11_Witness ==
    /\ _pending_autoplay_key # None
    /\ file_ready # <<>>
    /\ Head(file_ready).ok
    /\ key(Head(file_ready).song) = _pending_autoplay_key
    /\ current_song_key # _pending_autoplay_key
    /\ ENABLED FileReady


\* How many jobs of the queue q are for the song s.
JobsFor(q, s) == Cardinality({i \in 1 .. Len(q) : q[i].song = s})

\* C12: handling a failure completion event leaves the prefetch fields, the
\* pending autoplay key and what plays unchanged, and puts no job for the
\* failed song on either queue, other than a request of the user's that waited
\* in the deferred buffer.
C12_NoAutomaticRetry ==
    [][(/\ file_ready # <<>>
        /\ ~Head(file_ready).ok
        /\ FileReady)
       => LET s == Head(file_ready).song
          IN /\ UNCHANGED <<_prefetch_triggered, _prefetch_in_progress,
                            _prefetch_next_key, _pending_autoplay_key,
                            current_song_key, player_source>>
             /\ JobsFor(_bg_q', s) = JobsFor(_bg_q, s)
             /\ \/ JobsFor(_high_q', s) = JobsFor(_high_q, s)
                \/ /\ _deferred_hi # <<>>
                   /\ Head(_deferred_hi)[1] = s
                   /\ _deferred_hi' = Tail(_deferred_hi)]_vars


\* C13: a refresh of a song S asked for while a prefetch is in progress for
\* another song is not submitted: (S, refresh=true) is appended at the tail of
\* the deferred buffer and nothing else changes.  With no prefetch in progress,
\* or with the prefetch targeting S, the request is submitted at once as an
\* interactive job with refresh true, the newest of the queue, and the deferred
\* buffer is unchanged.
C13_DeferredHighRule ==
    [][\A row \in Rows :
          (wpc' = wpc /\ file_ready' = file_ready /\ Refresh(row)) =>
              LET s == current_list[row + 1]
              IN IF _prefetch_in_progress /\ _prefetch_next_key # key(s)
                 THEN /\ _deferred_hi' = Append(_deferred_hi, <<s, TRUE>>)
                      /\ UNCHANGED <<dlm_vars, env_vars, seq_vars, current_song_key,
                                     player_source, _duration_ms, pf_vars,
                                     _pending_autoplay_key>>
                 ELSE /\ _deferred_hi' = _deferred_hi
                      /\ Len(_high_q') > Len(_high_q)
                      /\ SubSeq(_high_q', 1, Len(_high_q)) = _high_q
                      /\ _high_q'[Len(_high_q')] = DownloadJob(s, TRUE, TRUE)]_vars

\* C13: a prefetch is in progress and the user can ask for the refresh of a
\* song that is not its target, and of the song that is.
C13_Witness ==
    /\ _prefetch_in_progress
    /\ \E row \in Rows :
         /\ row < Len(current_list)
         /\ key(current_list[row + 1]) # _prefetch_next_key
         /\ ENABLED Refresh(row)
    /\ \E row \in Rows :
         /\ row < Len(current_list)
         /\ key(current_list[row + 1]) = _prefetch_next_key
         /\ ENABLED Refresh(row)


\* C14: a request leaves the deferred buffer only one at a time, as the oldest,
\* submitted as the newest interactive job, and only when no other interactive
\* work is outstanding: the interactive queue is empty, no interactive worker
\* holds a job and, once the handler has run, no prefetch is in progress.
C14_DrainOnlyWhenIdle ==
    [][Len(_deferred_hi') < Len(_deferred_hi) =>
          /\ _deferred_hi' = Tail(_deferred_hi)
          /\ _high_q' = <<DownloadJob(Head(_deferred_hi)[1], Head(_deferred_hi)[2], TRUE)>>
          /\ _high_q = <<>>
          /\ \A w \in HiWorkers : wpc[w] = "get"
          /\ ~_prefetch_in_progress']_vars


\* A job for the song of key k is queued or held on the interactive lane, or
\* its completion event is not handled yet.
Outstanding(k) ==
    \/ \E i \in 1 .. Len(_high_q) : key(_high_q[i].song) = k
    \/ \E w \in HiWorkers : wpc[w] # "get" /\ key(wjob[w].song) = k
    \/ \E i \in 1 .. Len(file_ready) : key(file_ready[i].song) = k

\* The prefetch job is no longer outstanding: it completed, its event handled.
PrefetchJobGone ==
    ~_prefetch_in_progress \/ ~Outstanding(_prefetch_next_key)

\* C15: once the interactive queue is empty and the prefetch job that caused
\* the deferral is no longer outstanding, the deferred buffer shrinks: its
\* oldest request is eventually submitted.
C15_DeferredEventuallyDrained ==
    \A n \in 1 .. MaxDeferred :
        (Len(_deferred_hi) = n /\ _high_q = <<>> /\ PrefetchJobGone)
            ~> (Len(_deferred_hi) < n)


\* The target of next: the following row of the play queue; from the last row,
\* the track after the current key in GlobalOrder if the play context is a plain
\* category, and the first row of the same play queue otherwise.
NextTarget ==
    IF play_index + 1 < Len(play_queue)
    THEN play_queue[play_index + 2]
    ELSE IF play_context[1] = "category"
    THEN AfterInGlobalOrder(current_song_key)
    ELSE play_queue[1]

\* C16: with a track current, next targets NextTarget: it crosses to the global
\* order only from the last row of a plain-category context, and in a playlist
\* context wraps to the first row of the same play queue.  The target is played
\* if its file exists, and otherwise fetched as the pending autoplay.
C16_NextCrossesOnlyInCategory ==
    (/\ play_queue # <<>>
     /\ play_index >= 0
     /\ play_context # NoContext
     /\ current_song_key # None)
    => LET st == _next_song(UiState)
           t == NextTarget
       IN IF expected_path(t) \in files
          THEN st.current_song_key = key(t)
          ELSE /\ st._pending_autoplay_key = key(t)
               /\ st._high_q = Append(_high_q, DownloadJob(t, FALSE, TRUE))


\* C17: in every reachable state, a prefetch in progress has a target:
\* _prefetch_in_progress implies _prefetch_next_key is not None.
C17_PrefetchInvariant ==
    _prefetch_in_progress => _prefetch_next_key # None

\* C17: a prefetch is in progress while a refresh waits in the deferred buffer
\* and the completion event of the prefetch target is about to be handled.
C17_Witness ==
    /\ _prefetch_in_progress
    /\ _deferred_hi # <<>>
    /\ file_ready # <<>>
    /\ Head(file_ready).ok
    /\ key(Head(file_ready).song) = _prefetch_next_key
    /\ ENABLED FileReady


\* The three prefetch fields of the handler's result st are all-false / None.
PrefetchReset(st) ==
    /\ ~st._prefetch_triggered
    /\ ~st._prefetch_in_progress
    /\ st._prefetch_next_key = None

\* C18: every handler that makes a call of _play_file leaves triggered false,
\* in_progress false and next_key None, so that the next position update inside
\* the window evaluates the prefetch anew: a transition (play the selected row,
\* previous, next) that finds its target's file, the handling of the successful
\* completion event of the pending autoplay, and the hop of a refresh or of a
\* delete of the playing song to a next song whose file exists.
C18_ResetOnNewTrack ==
    /\ \A row \in Rows :
           (row < Len(current_list) /\ expected_path(current_list[row + 1]) \in files)
           => PrefetchReset(_start_playback_from_row(UiState, row))
    /\ (play_queue # <<>> /\ expected_path(PrevTarget) \in files)
       => PrefetchReset(_prev_song(UiState))
    /\ (play_queue # <<>> /\ _next_song(UiState)._pending_autoplay_key = None)
       => PrefetchReset(_next_song(UiState))
    /\ (/\ file_ready # <<>>
        /\ Head(file_ready).ok
        /\ _pending_autoplay_key # None
        /\ _pending_autoplay_key = key(Head(file_ready).song))
       => PrefetchReset(_on_file_ready(UiState, Head(file_ready)))
    /\ \A row \in Rows :
           (/\ row < Len(current_list)
            /\ current_song_key = key(current_list[row + 1])
            /\ expected_path(AfterInGlobalOrder(current_song_key)) \in files)
           => /\ PrefetchReset(_delete_file_for_song(UiState, current_list[row + 1]))
              /\ ~(_prefetch_in_progress /\ _prefetch_next_key # current_song_key)
                     => PrefetchReset(_refresh_download(UiState, current_list[row + 1]))

\* C18: the prefetch of the current track is in progress and the user can open
\* the delete question on the playing song, whose next song has its file.
C18_Witness ==
    /\ _prefetch_triggered
    /\ _prefetch_in_progress
    /\ \E row \in Rows :
         /\ row < Len(current_list)
         /\ current_song_key = key(current_list[row + 1])
         /\ expected_path(AfterInGlobalOrder(current_song_key)) \in files
         /\ ENABLED DeleteDismissed(row)


\* C19: a position update under the trigger condition (duration > 0, duration -
\* position <= PREFETCH_MS, triggered false).  With a next track whose file
\* exists, triggered becomes true, in_progress stays false and no job is
\* submitted; with a next track whose file is absent, triggered and in_progress
\* become true, next_key becomes its key and exactly one interactive job with
\* refresh false is submitted for it; with no next track nothing changes.
C19_PrefetchOutcome ==
    \A pos_ms \in Positions :
        (/\ _duration_ms > 0
         /\ _duration_ms - pos_ms <= PREFETCH_MS
         /\ ~_prefetch_triggered)
        => LET st == _on_pos_changed(UiState, pos_ms)
               r == _next_in_queue_index(UiState)
           IN IF r.idx = NoIndex
              THEN st = UiState
              ELSE LET nxt == r.st.play_queue[r.idx + 1]
                   IN IF expected_path(nxt) \in files
                      THEN /\ st._prefetch_triggered
                           /\ ~st._prefetch_in_progress
                           /\ st._high_q = _high_q
                           /\ st._bg_q = _bg_q
                      ELSE /\ st._prefetch_triggered
                           /\ st._prefetch_in_progress
                           /\ st._prefetch_next_key = key(nxt)
                           /\ st._high_q = Append(_high_q, DownloadJob(nxt, FALSE, TRUE))
                           /\ st._bg_q = _bg_q

\* C19: the trigger condition holds for the position inside the window, in a
\* state where the next row of the play queue has no file and the update can be
\* handled.
C19_Witness ==
    /\ _duration_ms > 0
    /\ ~_prefetch_triggered
    /\ play_index >= 0
    /\ play_index + 1 < Len(play_queue)
    /\ expected_path(play_queue[play_index + 2]) \notin files
    /\ ENABLED PosChanged(SongDur - PREFETCH_MS)


\* C20: when a step of the processing of a dequeued job raises (the
\* file-existence check or the started notification, past the gates; the
\* adapter call) the worker emits one failure event (song, ok=false, error
\* text) for that job and is back at q.get, holding nothing; no worker thread
\* ever ends, and a worker at q.get whose queue holds a job can take it.
C20_WorkerCatchAll ==
    /\ [][\A w \in Workers :
             (\/ \E t \in Clock : WorkerRaise(w, t)
              \/ WorkerFetchDone(w, "raised"))
             => /\ file_ready' = Append(file_ready,
                                        [song |-> wjob[w].song, ok |-> FALSE,
                                         msg |-> <<"error">>])
                /\ wpc'[w] = "get"
                /\ wjob'[w] = NoJob]_vars
    /\ [](\A w \in Workers :
             /\ wpc[w] \in {"get", "gate", "fetch"}
             /\ (wpc[w] = "get" /\ QueueOf(w) # <<>>) => ENABLED WorkerGet(w))

\* C20: a worker past the gates with a job, whose next step can raise, while a
\* later job waits on its queue.
C20_Witness ==
    \E w \in Workers :
        /\ wpc[w] = "gate"
        /\ QueueOf(w) # <<>>
        /\ ENABLED WorkerRaise(w, 1)



\* C21: the Fetch Adapter never raises and reports outcomes as values: whatever
\* the environment does during a worker's call, _download_song_file returns;
\* it returns (true, _) exactly when the process ran, exited with status zero
\* and the destination file exists afterwards, and (false, message) otherwise,
\* including when the process cannot be spawned or the destination directory
\* cannot be created.
C21_AdapterNeverRaises ==
    \A w \in Workers :
        wpc[w] = "fetch" =>
            \A env \in AdapterEnvs :
                LET r == _download_song_file(wjob[w].song, env)
                IN /\ ~r.raised
                   /\ r.ok <=> (/\ ProcessRan(env)
                                /\ env.returncode = 0
                                /\ env.exists_after)
                   /\ ~r.ok => r.msg # ""



\* An interactive worker goes past the gates with the job it holds: it enters
\* the fetch or emits the job's completion event.
HiProcessed ==
    \E w \in HiWorkers :
        /\ wpc[w] = "gate"
        /\ (wpc'[w] = "fetch" \/ Len(file_ready') > Len(file_ready))

\* C22: the lanes are disjoint: a job is dequeued from the interactive queue
\* only by an interactive worker and from the background queue only by a
\* background worker, so a worker only ever holds a job of its own lane; an
\* interactive worker never puts its job back, whatever the background flag and
\* the background queue; and under fairness of the interactive workers alone
\* the interactive lane keeps moving: again and again no interactive job waits
\* (queued or at the gates) or an interactive worker processes one, and every
\* interactive worker comes back for the next job.
C22_LanesDisjoint ==
    /\ [][/\ \A w \in Workers :
               (wpc[w] = "get" /\ wpc'[w] = "gate") =>
                   IF w \in HiWorkers
                   THEN /\ _high_q # <<>>
                        /\ wjob'[w] = Head(_high_q)
                        /\ _high_q' = Tail(_high_q)
                        /\ _bg_q' = _bg_q
                   ELSE /\ _bg_q # <<>>
                        /\ wjob'[w] = Head(_bg_q)
                        /\ _bg_q' = Tail(_bg_q)
                        /\ _high_q' = _high_q
          /\ \A w \in HiWorkers :
               (wpc[w] = "gate" /\ wpc'[w] # "gate") =>
                   (_high_q' = _high_q /\ HiProcessed)]_vars
    /\ [](\A w \in Workers : wpc[w] # "get" => (wjob[w].high <=> w \in HiWorkers))
    /\ \/ []<>(_high_q = <<>> /\ \A w \in HiWorkers : wpc[w] # "gate")
       \/ []<><<HiProcessed>>_vars
    /\ \A w \in HiWorkers : []<>(wpc[w] = "get")

\* C22: with the background flag false and a job waiting on the background
\* queue, an interactive worker holds a job at the gates.
C22_Witness ==
    /\ ~_bg_enabled
    /\ _bg_q # <<>>
    /\ \E w \in HiWorkers : wpc[w] = "gate" /\ wjob[w].high



\* C23: previous, with a non-empty play queue and play_index >= 0, targets
\* play_queue[(play_index - 1) mod len] (from index 0 the last row of the same
\* queue) and makes that index the play index; it leaves the play queue, the
\* play context, the viewed category and its list as they are.  The target is
\* played if its file exists and otherwise fetched as the pending autoplay.
C23_PreviousWraps ==
    (play_queue # <<>> /\ play_index >= 0)
    => LET st == _prev_song(UiState)
           i == (play_index - 1) % Len(play_queue)
           t == play_queue[i + 1]
       IN /\ st.play_index = i
          /\ st.play_queue = play_queue
          /\ st.play_context = play_context
          /\ st.current_category = current_category
          /\ st.current_list = current_list
          /\ IF expected_path(t) \in files
             THEN /\ st.current_song_key = key(t)
                  /\ st.player_source = expected_path(t)
                  /\ st._high_q = _high_q
             ELSE /\ st._pending_autoplay_key = key(t)
                  /\ st._high_q = Append(_high_q, DownloadJob(t, FALSE, TRUE))
                  /\ st.current_song_key = current_song_key

\* C23: the first row of a two-row play queue plays, in a view other than the
\* one the queue was started from, and the previous button can be pressed: the
\* last row of the queue is not the track before the current one in the global
\* order.
C23_Witness ==
    /\ Len(play_queue) = 2
    /\ play_index = 0
    /\ current_song_key = key(play_queue[1])
    /\ play_context # NoContext
    /\ _view_identity(UiState) # play_context
    /\ AfterInGlobalOrder(play_queue[2]) # play_queue[1]
    /\ ENABLED PrevSong



\* C24: the Qt thread resumes the background downloads (the flag goes from
\* false to true, or jobs are appended to the background queue by
\* _resume_background_missing) only when no interactive job exists, none
\* waiting on the interactive queue and none held by an interactive worker,
\* and no prefetch is in progress once the handler has run.
C24_ResumeOnlyWhenNoHighJob ==
    [][(/\ wpc' = wpc
        /\ \/ Len(_bg_q') > Len(_bg_q)
           \/ (_bg_enabled' /\ ~_bg_enabled))
       => /\ _high_q = <<>>
          /\ \A w \in HiWorkers : wpc[w] = "get"
          /\ ~_prefetch_in_progress']_vars



\* C25: a refresh of the playing song S that is not deferred hops to the
\* global next song N: if N's file exists N plays and the job (S, refresh=true)
\* is submitted; if N's file is absent a job (N, refresh=false) and then the
\* job (S, refresh=true) are submitted and N's key is the pending autoplay when
\* the handler returns, what plays being unchanged until N's fetch completes.
C25_RefreshCurrentHops ==
    \A row \in Rows :
        (/\ row < Len(current_list)
         /\ current_song_key # None
         /\ current_song_key = key(current_list[row + 1])
         /\ ~(_prefetch_in_progress /\ _prefetch_next_key # current_song_key))
        => LET s == current_list[row + 1]
               n == AfterInGlobalOrder(current_song_key)
               st == _refresh_download(UiState, s)
           IN IF expected_path(n) \in files
              THEN /\ st.current_song_key = key(n)
                   /\ st.player_source = expected_path(n)
                   /\ st._high_q = Append(_high_q, DownloadJob(s, TRUE, TRUE))
              ELSE /\ st._high_q = _high_q \o <<DownloadJob(n, FALSE, TRUE),
                                                DownloadJob(s, TRUE, TRUE)>>
                   /\ st.current_song_key = current_song_key
                   /\ st._pending_autoplay_key = key(n)



\* C26: the background lane never holds duplicates: for every song at most one
\* background job is queued or held by a background worker, so the background
\* jobs outstanding are no more than the catalog songs.
C26_NoBackgroundDuplicates ==
    /\ \A s \in Songs :
           JobsFor(_bg_q, s)
             + Cardinality({w \in BgWorkers : wpc[w] # "get" /\ wjob[w].song = s}) <= 1
    /\ Len(_bg_q) + Cardinality({w \in BgWorkers : wpc[w] # "get"})
           <= Cardinality(Songs)



\* The key a transition's result st goes to: the pending autoplay if the
\* target is being fetched, the playing key otherwise.
TargetKey(st) ==
    IF st._pending_autoplay_key # None
    THEN st._pending_autoplay_key
    ELSE st.current_song_key

\* C27: the prefetched track is the track that plays next: when a position
\* update during the playback of the track at play_index makes the scheduler
\* record the key K as _prefetch_next_key, the next transition taken from the
\* state the scheduler leaves (nothing else having happened) targets the song
\* of key K: in every play context, at every position of the play queue and in
\* every view.
C27_PrefetchedIsNext ==
    \A pos_ms \in Positions :
        (/\ play_queue # <<>>
         /\ play_index >= 0
         /\ current_song_key # None
         /\ current_song_key = key(play_queue[play_index + 1])
         /\ _pending_autoplay_key = None
         /\ PrefetchDue(UiState, pos_ms))
        => LET st1 == _on_pos_changed(UiState, pos_ms)
           IN st1._prefetch_next_key # None
              => TargetKey(_next_song(st1)) = st1._prefetch_next_key



\* C28: a position update that triggers the prefetch evaluation changes only
\* the three prefetch fields and possibly the interactive queue: the play
\* queue, the play index, the play context, the playing key, the viewed
\* category and its list, and every other field of the window and of the
\* download manager, are the same before and after.
C28_PrefetchFrame ==
    \A pos_ms \in Positions :
        (current_song_key # None /\ PrefetchDue(UiState, pos_ms))
        => LET st == _on_pos_changed(UiState, pos_ms)
           IN /\ st.play_queue = play_queue
              /\ st.play_index = play_index
              /\ st.play_context = play_context
              /\ st.current_song_key = current_song_key
              /\ st.current_category = current_category
              /\ st.current_list = current_list
              /\ st.player_source = player_source
              /\ st._duration_ms = _duration_ms
              /\ st._pending_autoplay_key = _pending_autoplay_key
              /\ st._deferred_hi = _deferred_hi
              /\ st._bg_q = _bg_q
              /\ st._bg_enabled = _bg_enabled



\* C29: a prefetch in progress has an outstanding job: whenever
\* _prefetch_in_progress is true, an interactive job for _prefetch_next_key is
\* queued, or held by an interactive worker, or its completion event is not
\* handled yet.
C29_InProgressHasJob ==
    _prefetch_in_progress => Outstanding(_prefetch_next_key)



\* C30: stale completions never hijack playback.  The handling of a completion
\* event starts playback only if the event is a success for the pending
\* autoplay key: then that song plays from the reported path and the pending
\* key is cleared; the handling of any other event (another key, or a failure)
\* leaves the playing key, the player's source, the play queue, the play index,
\* the play context and the pending key unchanged.  The pending key is the
\* target of the most recent transition whose file was absent: it changes to a
\* key only in a step of the Qt thread that submits the interactive job
\* (refresh false) for that key, its file absent, and every step that starts
\* playback clears it.
C30_NoStaleAutoplay ==
    [][/\ Len(file_ready') < Len(file_ready) =>
            LET ev == Head(file_ready)
            IN IF ev.ok /\ _pending_autoplay_key # None
                  /\ key(ev.song) = _pending_autoplay_key
               THEN /\ current_song_key' = key(ev.song)
                    /\ player_source' = ev.msg
                    /\ _pending_autoplay_key' = None
                    /\ UNCHANGED <<play_queue, play_index, play_context>>
               ELSE UNCHANGED <<current_song_key, player_source, play_queue,
                                play_index, play_context, _pending_autoplay_key>>
       /\ (_pending_autoplay_key' # _pending_autoplay_key
           /\ _pending_autoplay_key' # None) =>
              /\ expected_path(_pending_autoplay_key') \notin files
              /\ _high_q' = Append(_high_q,
                                   DownloadJob(_pending_autoplay_key', FALSE, TRUE))
              /\ UNCHANGED <<current_song_key, player_source, file_ready, wpc>>
       /\ (current_song_key' # current_song_key \/ player_source' # player_source)
              => _pending_autoplay_key' = None]_vars

\* C30: a song plays, another song is the pending autoplay, and the event about
\* to be handled is the successful completion of a third job, for neither.
C30_Witness ==
    /\ current_song_key # None
    /\ _pending_autoplay_key # None
    /\ file_ready # <<>>
    /\ Head(file_ready).ok
    /\ key(Head(file_ready).song) \notin {_pending_autoplay_key, current_song_key}
    /\ ENABLED FileReady


====
